---- MODULE Spec2Model ----
(***************************************************************************)
(* A model of creusot's specification lowering and of the structural       *)
(* operations of its Why3 IR (why3/src/mlcfg.rs: Exp::fvs, Exp::subst,      *)
(* Exp::app_to, Pattern::binders; creusot/.../specification/lower.rs:      *)
(* lower_term_to_why, lower_type_to_why, lower_pattern_to_why).            *)
(*                                                                         *)
(* Trees are tuples whose first element is the variant's name, e.g.        *)
(*   <<"Var", "x">>, <<"Let", pat, arg, body>>, <<"Forall", bnds, body>>.  *)
(* A panic (unimplemented!(), unreachable!(), panic!(), unwrap on None) is  *)
(* the value <<"Panic">>; it propagates through every caller.              *)
(***************************************************************************)
EXTENDS Integers, Sequences, FiniteSets, TLC

VARIABLES
    exp,      \* IR: the expression the caller owns (subst rewrites it in place)
    prev,     \* IR: the expression as it was before the last operation
    sub,      \* IR: the mapping handed to the last subst
    fv,       \* IR: what the last fvs returned, <<"Ok", set>>, or <<"None">>
    input,    \* lowering: the specification tree handed to the lowering
    out,      \* lowering: what the lowering returned, or <<"None">>
    prec,     \* IR: the class the last precedence returned, or "None"
    last      \* the operation performed last

vars == <<exp, prev, sub, fv, input, out, prec, last>>

----------------------------------------------------------------------------
(* Bounds of the model.                                                    *)

MaxArgs == 2        \* longest argument / element list
NumDefIds == 5      \* reference ids known to the symbol resolver
MaxTyVar == 2       \* largest type variable index

Idents == {"x", "y"}    \* the local identifiers in play

RECURSIVE SeqsOfLen(_, _)
SeqsOfLen(S, n) ==
    IF n = 0 THEN {<<>>}
    ELSE {Append(q, a) : q \in SeqsOfLen(S, n - 1), a \in S}

SeqsUpTo(S, n) == UNION {SeqsOfLen(S, k) : k \in 0..n}
NonEmptySeqsUpTo(S, n) == UNION {SeqsOfLen(S, k) : k \in 1..n}

Panic == <<"Panic">>
None == <<"None">>
Ok(S) == <<"Ok", S>>

----------------------------------------------------------------------------
(* why3/src/mlcfg.rs: Pattern::binders                                     *)

RECURSIVE binders(_), binders_fold(_)

binders_fold(pats) ==
    IF pats = <<>> THEN {}
    ELSE binders(Head(pats)) \cup binders_fold(Tail(pats))

binders(p) ==
    CASE p[1] = "Wildcard" -> {}
      [] p[1] = "VarP" -> {p[2]}
      [] p[1] = "TupleP" -> binders_fold(p[2])
      [] p[1] = "ConsP" -> binders_fold(p[3])

----------------------------------------------------------------------------
(* why3/src/mlcfg.rs: Exp::fvs. The set operators of the source (|, -,     *)
(* remove) act on the values their operands returned, so a panic in an      *)
(* operand is a panic of the whole.                                        *)

SetUnion(a, b) == IF a = Panic \/ b = Panic THEN Panic ELSE Ok(a[2] \cup b[2])
SetMinus(a, S) == IF a = Panic THEN Panic ELSE Ok(a[2] \ S)

RECURSIVE BinderNames(_)
BinderNames(bnds) ==
    IF bnds = <<>> THEN {} ELSE {Head(bnds)[1]} \cup BinderNames(Tail(bnds))

RECURSIVE fvs(_), fvs_fold(_, _)

fvs_fold(acc, args) ==
    IF args = <<>> THEN acc
    ELSE fvs_fold(SetUnion(acc, fvs(Head(args))), Tail(args))

fvs(e) ==
    CASE e[1] = "Current" -> fvs(e[2])
      [] e[1] = "Final" -> fvs(e[2])
      [] e[1] = "Let" -> SetUnion(SetMinus(fvs(e[4]), binders(e[2])), fvs(e[3]))
      [] e[1] = "Var" -> Ok({e[2]})
      [] e[1] = "QVar" -> Ok({})
      [] e[1] = "Constructor" -> fvs_fold(Ok({}), e[3])
      [] e[1] = "Const" -> Ok({})
      [] e[1] = "BinaryOp" -> SetUnion(fvs(e[3]), fvs(e[4]))
      [] e[1] = "Call" -> fvs_fold(fvs(e[2]), e[3])
      [] e[1] = "Impl" -> SetUnion(fvs(e[2]), fvs(e[3]))
      [] e[1] = "Forall" -> SetMinus(fvs(e[3]), BinderNames(e[2]))
      [] e[1] = "BorrowMut" -> fvs(e[2])
      [] e[1] = "Verbatim" -> Ok({})
      [] OTHER -> Panic   \* _ => unimplemented!()

----------------------------------------------------------------------------
(* why3/src/mlcfg.rs: Exp::subst                                           *)

\* (mutant) the clone of the mapping is used as it is, nothing removed
RemoveBinders_Kept(s, bound) == s

\* subst.clone() followed by subst.remove(k) for every k the form binds
RemoveBinders(s, bound) == [k \in (DOMAIN s) \ bound |-> s[k]]

RECURSIVE subst(_, _), subst_each(_, _), subst_arms(_, _)

subst_each(es, s) ==
    IF es = <<>> THEN <<>>
    ELSE <<subst(Head(es), s)>> \o subst_each(Tail(es), s)

subst_arms(brs, s) ==
    IF brs = <<>> THEN <<>>
    ELSE <<  <<Head(brs)[1],
              subst(Head(brs)[2], RemoveBinders(s, binders(Head(brs)[1])))>>  >>
         \o subst_arms(Tail(brs), s)

\* Exp::Call(_, a): the arguments are rewritten, the callee is not visited
SubstCall(f, a, s) == <<"Call", f, subst_each(a, s)>>

subst(e, s) ==
    CASE e[1] = "Current" -> <<"Current", subst(e[2], s)>>
      [] e[1] = "Final" -> <<"Final", subst(e[2], s)>>
      [] e[1] = "Let" ->
            <<"Let", e[2], subst(e[3], s),
              subst(e[4], RemoveBinders(s, binders(e[2])))>>
      [] e[1] = "Var" -> IF e[2] \in DOMAIN s THEN s[e[2]] ELSE e
      [] e[1] = "RecUp" -> <<"RecUp", subst(e[2], s), e[3], subst(e[4], s)>>
      [] e[1] = "RecField" -> <<"RecField", subst(e[2], s), e[3]>>
      [] e[1] = "Tuple" -> <<"Tuple", subst_each(e[2], s)>>
      [] e[1] = "Constructor" -> <<"Constructor", e[2], subst_each(e[3], s)>>
      [] e[1] = "Abs" -> <<"Abs", e[2], subst(e[3], RemoveBinders(s, {e[2]}))>>
      [] e[1] = "Match" -> <<"Match", subst(e[2], s), subst_arms(e[3], s)>>
      [] e[1] = "BorrowMut" -> <<"BorrowMut", subst(e[2], s)>>
      [] e[1] = "UnaryOp" -> <<"UnaryOp", e[2], subst(e[3], s)>>
      [] e[1] = "BinaryOp" -> <<"BinaryOp", e[2], subst(e[3], s), subst(e[4], s)>>
      [] e[1] = "Impl" -> <<"Impl", subst(e[2], s), subst(e[3], s)>>
      [] e[1] = "Forall" ->
            <<"Forall", e[2], subst(e[3], RemoveBinders(s, BinderNames(e[2])))>>
      [] e[1] = "Exists" ->
            <<"Exists", e[2], subst(e[3], RemoveBinders(s, BinderNames(e[2])))>>
      [] e[1] = "Call" -> SubstCall(e[2], e[3], s)
      [] e[1] = "QVar" -> e
      [] e[1] = "Const" -> e
      [] e[1] = "Verbatim" -> e
      [] e[1] = "Absurd" -> e

(* why3/src/mlcfg.rs: Exp::app_to                                          *)
app_to(self, arg) ==
    IF self[1] = "Call" THEN <<"Call", self[2], Append(self[3], arg)>>
    ELSE <<"Call", self, <<arg>> >>

----------------------------------------------------------------------------
(* why3/src/mlcfg.rs: enum Precedence and Exp::precedence. The enum derives *)
(* PartialOrd and Ord, so its classes are ordered as they are declared: a   *)
(* class is less than the classes declared after it.                        *)

Precedence ==
    <<"Closed", "Any", "Let", "Assign", "Impl", "Or", "And", "Compare",
      "AddSub", "Mul", "PrefixOp", "Term", "Call">>

\* the position of a class in the derived order
Rank(c) == CHOOSE i \in 1..Len(Precedence) : Precedence[i] = c

\* (mutant) division is classed with multiplication
BinaryOpPrecedence_DivAsMul(op) ==
    CASE op = "And" -> "And"
      [] op = "Or" -> "Or"
      [] op \in {"Add", "Sub"} -> "AddSub"
      [] op \in {"Mul", "Div"} -> "Mul"
      [] op \in {"Eq", "Lt", "Le", "Ne", "Ge", "Gt"} -> "Compare"

\* the inner match of the BinaryOp arm
BinaryOpPrecedence(op) ==
    CASE op = "And" -> "And"
      [] op = "Or" -> "Or"
      [] op = "Add" -> "AddSub"
      [] op = "Sub" -> "AddSub"
      [] op = "Mul" -> "Mul"
      [] op = "Div" -> "Term"
      [] op = "Eq" -> "Compare"
      [] op = "Lt" -> "Compare"
      [] op = "Le" -> "Compare"
      [] op = "Ne" -> "Compare"
      [] op = "Ge" -> "Compare"
      [] op = "Gt" -> "Compare"

precedence(self) ==
    CASE self[1] = "Current" -> "PrefixOp"
      [] self[1] = "Final" -> "PrefixOp"
      [] self[1] = "Let" -> "Let"
      [] self[1] = "Abs" -> "Let"
      [] self[1] = "Var" -> "Closed"
      [] self[1] = "QVar" -> "Closed"
      [] self[1] = "RecUp" -> "Term"
      [] self[1] = "RecField" -> "Any"
      [] self[1] = "Tuple" -> "Closed"
      [] self[1] = "Constructor" -> "Term"
      [] self[1] = "Match" -> "Term"
      [] self[1] = "BorrowMut" -> "Term"
      [] self[1] = "Const" -> "Closed"
      [] self[1] = "UnaryOp" -> IF self[2] = "Neg" THEN "PrefixOp" ELSE "Call"
      [] self[1] = "BinaryOp" -> BinaryOpPrecedence(self[2])
      [] self[1] = "Call" -> "Call"
      [] self[1] = "Verbatim" -> "Any"
      [] self[1] = "Impl" -> "Impl"
      [] self[1] = "Forall" -> "Any"
      [] self[1] = "Exists" -> "Any"
      [] self[1] = "Absurd" -> "Closed"

----------------------------------------------------------------------------
(* The IR expressions callers start from: every variant of Exp over leaves. *)

TBool == <<"Bool">>
QF == << <<>>, <<"f">> >>          \* a qualified name QName { module, name }
C0 == <<"Const", <<"Int", 0, <<"None">> >> >>

VarE(v) == <<"Var", v>>
VarEs == {VarE(v) : v \in Idents}
Operands == VarEs \cup {C0}
Leaves == VarEs \cup {C0, <<"QVar", QF>>, <<"Verbatim", "raw">>, <<"Absurd">>}

VarPs == {<<"VarP", v>> : v \in Idents}
PatLeaves == VarPs \cup {<<"Wildcard">>}
Pats ==
    PatLeaves
    \cup {<<"TupleP", ps>> : ps \in SeqsOfLen(VarPs, 2)}
    \cup {<<"ConsP", QF, ps>> : ps \in SeqsUpTo(VarPs, 1)}

Binders == {<< <<v, TBool>> >> : v \in Idents}
           \cup {<< <<v, TBool>>, <<w, TBool>> >> : v \in Idents, w \in Idents}

BinOps == {"And", "Or", "Add", "Sub", "Mul", "Div", "Eq", "Lt", "Le", "Gt", "Ge", "Ne"}
UnOps == {"Not", "Neg"}

ArgLists == SeqsUpTo(Operands, MaxArgs)
Arms == {<< <<p, b>> >> : p \in Pats, b \in VarEs}
        \cup {<< <<p, b>>, <<q, c>> >> : p \in PatLeaves, q \in PatLeaves,
                                         b \in VarEs, c \in VarEs}

BaseExps ==
    Leaves
    \cup {<<"Current", a>> : a \in Leaves}
    \cup {<<"Final", a>> : a \in Leaves}
    \cup {<<"BorrowMut", a>> : a \in Leaves}
    \cup {<<"RecField", a, "l">> : a \in Leaves}
    \cup {<<"UnaryOp", o, a>> : o \in UnOps, a \in Leaves}
    \cup {<<"Abs", v, a>> : v \in Idents, a \in Leaves}
    \cup {<<"Forall", bs, a>> : bs \in Binders, a \in Leaves}
    \cup {<<"Exists", bs, a>> : bs \in Binders, a \in Leaves}
    \cup {<<"RecUp", a, "l", b>> : a \in Operands, b \in Operands}
    \cup {<<"BinaryOp", o, a, b>> : o \in BinOps, a \in Operands, b \in Operands}
    \cup {<<"Impl", a, b>> : a \in Operands, b \in Operands}
    \cup {<<"Let", p, a, b>> : p \in Pats, a \in Operands, b \in Operands}
    \cup {<<"Tuple", as>> : as \in ArgLists}
    \cup {<<"Constructor", QF, as>> : as \in ArgLists}
    \cup {<<"Call", f, as>> : f \in Leaves, as \in ArgLists}
    \cup {<<"Match", a, brs>> : a \in VarEs, brs \in Arms}

\* One-hole contexts around the smaller expressions, for nested forms.
Inner ==
    {<<"Current", a>> : a \in VarEs}
    \cup {<<"Final", a>> : a \in VarEs}
    \cup {<<"BorrowMut", a>> : a \in VarEs}
    \cup {<<"RecField", a, "l">> : a \in VarEs}
    \cup {<<"UnaryOp", "Not", a>> : a \in VarEs}
    \cup {<<"Abs", v, a>> : v \in Idents, a \in VarEs}
    \cup {<<"Forall", << <<v, TBool>> >>, a>> : v \in Idents, a \in VarEs}
    \cup {<<"Exists", << <<v, TBool>> >>, a>> : v \in Idents, a \in VarEs}
    \cup {<<"RecUp", a, "l", b>> : a \in VarEs, b \in VarEs}
    \cup {<<"BinaryOp", "And", a, b>> : a \in VarEs, b \in VarEs}
    \cup {<<"Impl", a, b>> : a \in VarEs, b \in VarEs}
    \cup {<<"Let", p, a, b>> : p \in VarPs, a \in VarEs, b \in VarEs}
    \cup {<<"Tuple", <<a, b>> >> : a \in VarEs, b \in VarEs}
    \cup {<<"Constructor", QF, <<a>> >> : a \in VarEs}
    \cup {<<"Call", f, <<a>> >> : f \in VarEs, a \in VarEs}
    \cup {<<"Match", a, << <<p, b>> >> >> : a \in VarEs, p \in VarPs, b \in VarEs}

NestedExps ==
    {<<"Current", i>> : i \in Inner}
    \cup {<<"UnaryOp", "Neg", i>> : i \in Inner}
    \cup {<<"Abs", v, i>> : v \in Idents, i \in Inner}
    \cup {<<"Forall", << <<v, TBool>> >>, i>> : v \in Idents, i \in Inner}
    \cup {<<"Exists", << <<v, TBool>> >>, i>> : v \in Idents, i \in Inner}
    \cup {<<"Let", p, a, i>> : p \in VarPs, a \in VarEs, i \in Inner}
    \cup {<<"Let", p, i, a>> : p \in PatLeaves, a \in VarEs, i \in Inner}
    \cup {<<"Match", a, << <<p, i>> >> >> : a \in VarEs, p \in VarPs, i \in Inner}
    \cup {<<"Tuple", <<a, i>> >> : a \in VarEs, i \in Inner}
    \cup {<<"Call", i, <<a>> >> : a \in VarEs, i \in Inner}
    \cup {<<"Impl", i, a>> : a \in VarEs, i \in Inner}

Exps == BaseExps \cup NestedExps

\* the replacement expressions of a mapping, and the mappings themselves
Replacements ==
    VarEs \cup {C0} \cup {<<"Tuple", <<a, b>> >> : a \in VarEs, b \in VarEs}

Substs == UNION {[K -> Replacements] : K \in SUBSET Idents}

----------------------------------------------------------------------------
(* The IR as a state machine: a caller owns one expression, may rewrite it  *)
(* once with subst (in place) or app_to (consuming and rebuilding), and may *)
(* ask for its free variables or for its precedence class. A panic ends the *)
(* run.                                                                     *)

EmptySubst == [k \in {} |-> C0]

InitIR ==
    /\ exp \in Exps
    /\ prev = exp
    /\ sub = EmptySubst
    /\ fv = None
    /\ input = None
    /\ out = None
    /\ prec = "None"
    /\ last = "new"

Subst ==
    /\ last = "new"
    /\ \E s \in Substs :
        /\ exp' = subst(exp, s)
        /\ sub' = s
    /\ prev' = exp
    /\ fv' = None
    /\ last' = "subst"
    /\ UNCHANGED <<input, out, prec>>

AppTo ==
    /\ last = "new"
    /\ \E arg \in Operands :
        /\ exp' = app_to(exp, arg)
    /\ prev' = exp
    /\ sub' = EmptySubst
    /\ fv' = None
    /\ last' = "app_to"
    /\ UNCHANGED <<input, out, prec>>

Fvs ==
    /\ last \in {"new", "subst", "app_to"}
    /\ fv' = fvs(exp)
    /\ last' = IF fvs(exp) = Panic THEN "panic" ELSE "fvs"
    /\ UNCHANGED <<exp, prev, sub, input, out, prec>>

PrecedenceOf ==
    /\ last \in {"new", "subst", "app_to"}
    /\ prec' = precedence(exp)
    /\ last' = "precedence"
    /\ UNCHANGED <<exp, prev, sub, fv, input, out>>

NextIR == Subst \/ AppTo \/ Fvs \/ PrecedenceOf

SpecIR == InitIR /\ [][NextIR]_vars

----------------------------------------------------------------------------
(* The symbol resolver behind ctx.tcx: the kind of the definition an id     *)
(* names, and the qualified names the translation gives an id. Every query  *)
(* succeeds.                                                                *)

DefKinds == <<"Ctor", "Variant", "Struct", "Fn", "Const", "AssocFn", "Static">>
DefNames == <<"d1", "d2", "d3", "d4", "d5", "d6", "d7", "d8">>
DefIds == 1..NumDefIds

def_kind(id) == DefKinds[((id - 1) % Len(DefKinds)) + 1]
translate_value_id(id) == << <<"krate">>, <<DefNames[id]>> >>
translate_ty_name(id) == << <<"Type">>, <<DefNames[id]>> >>

----------------------------------------------------------------------------
(* creusot/src/translation/specification/lower.rs                          *)

AnyPanic(rs) == \E i \in 1..Len(rs) : rs[i] = Panic

\* lower_value_path / lower_type_path: only a Name::Path has a qualified name
lower_value_path(path) ==
    IF path[1] = "Path" THEN translate_value_id(path[2]) ELSE Panic

lower_type_path(path) ==
    IF path[1] = "Path" THEN translate_ty_name(path[2]) ELSE Panic

(* (mutant) a struct is not taken for a constructor *)
is_constructor_NoStruct(path) ==
    IF path[1] = "Ident" THEN FALSE
    ELSE def_kind(path[2]) \in {"Ctor", "Variant"}

is_constructor(path) ==
    IF path[1] = "Ident" THEN FALSE
    ELSE def_kind(path[2]) \in {"Ctor", "Variant", "Struct"}

op_to_op(op) ==
    CASE op \in {"Add", "Sub", "Mul", "Div", "Eq", "Ne", "Le", "Ge", "Gt", "Lt", "Rem"} ->
            <<"Other", op>>
      [] op = "And" -> <<"And">>
      [] op = "Or" -> <<"Or">>
      [] op = "Impl" -> Panic

const_true == <<"Other", "true">>
const_false == <<"Other", "false">>

lit_to_const(lit) ==
    CASE lit[1] \in {"U8", "U16", "U32", "U64", "Usize"} ->
            <<"Uint", lit[2], <<"Some", lit[1]>> >>
      [] lit[1] = "Int" -> <<"Int", lit[2], <<"None">> >>
      [] lit[1] \in {"F32", "F64"} -> Panic
      [] lit[1] = "Bool" -> IF lit[2] THEN const_true ELSE const_false

\* why3/src/mlcfg.rs: Pattern::mk_true, Pattern::mk_false
mk_true == <<"ConsP", << <<>>, <<"True">> >>, <<>> >>
mk_false == <<"ConsP", << <<>>, <<"False">> >>, <<>> >>

\* ('a'..).nth(i): the i-th char from 'a' on, the surrogates skipped; None
\* once the chars are used up
char_from_a(i) ==
    LET c == IF 97 + i < 55296 THEN 97 + i ELSE 97 + i + 2048
    IN  IF c <= 1114111 THEN <<"Some", c>> ELSE None

LitSizes == [Eight |-> "8", Sixteen |-> "16", ThirtyTwo |-> "32",
             SixtyFour |-> "64", Mach |-> "size"]

lower_lit_ty(lit) ==
    CASE lit[1] = "Signed" ->
            IF lit[2] = "Unknown" THEN Panic ELSE <<"Int", "I" \o LitSizes[lit[2]]>>
      [] lit[1] = "Unsigned" ->
            IF lit[2] = "Unknown" THEN Panic ELSE <<"Uint", "U" \o LitSizes[lit[2]]>>
      [] lit[1] = "Integer" -> <<"Integer">>
      [] lit[1] = "Float" -> <<"Float", "F32">>
      [] lit[1] = "Double" -> <<"Float", "F64">>
      [] lit[1] = "Boolean" -> <<"Bool">>

(* (mutant) a mutable borrow inside a mutable borrow is flattened *)
LowerMutRef_Flat(inner) ==
    IF inner = Panic THEN Panic
    ELSE IF inner[1] = "MutableBorrow" THEN inner
    ELSE <<"MutableBorrow", inner>>

\* Type::Reference { kind: RefKind::Mut, ty } => MutableBorrow(box lower(ty))
LowerMutRef(inner) ==
    IF inner = Panic THEN Panic ELSE <<"MutableBorrow", inner>>

RECURSIVE lower_type_to_why(_), lower_types(_), curry(_, _)

lower_types(tys) ==
    IF tys = <<>> THEN <<>>
    ELSE <<lower_type_to_why(Head(tys))>> \o lower_types(Tail(tys))

\* (mutant) the arguments are folded from the left (fold for rfold)
curry_FromLeft(args, acc) ==
    IF args = <<>> THEN acc
    ELSE LET a == lower_type_to_why(Head(args))
         IN  curry(Tail(args),
                   IF a = Panic \/ acc = Panic THEN Panic ELSE <<"TFun", a, acc>>)

\* args.into_iter().rfold(lower(res), |acc, arg| TFun(box lower(arg), box acc))
curry(args, acc) ==
    IF args = <<>> THEN acc
    ELSE LET n == Len(args)
             a == lower_type_to_why(args[n])
         IN  curry(SubSeq(args, 1, n - 1),
                   IF a = Panic \/ acc = Panic THEN Panic ELSE <<"TFun", a, acc>>)

lower_type_to_why(ty) ==
    CASE ty[1] = "Path" ->
            LET q == lower_type_path(ty[2])
            IN  IF q = Panic THEN Panic ELSE <<"TConstructor", q>>
      [] ty[1] = "Box" -> lower_type_to_why(ty[2])
      [] ty[1] = "Reference" ->
            IF ty[2] = "Mut" THEN LowerMutRef(lower_type_to_why(ty[3]))
            ELSE lower_type_to_why(ty[3])
      [] ty[1] = "Tuple" ->
            LET es == lower_types(ty[2])
            IN  IF AnyPanic(es) THEN Panic ELSE <<"Tuple", es>>
      [] ty[1] = "Lit" -> lower_lit_ty(ty[2])
      [] ty[1] = "App" ->
            LET f == lower_type_to_why(ty[2])
                as == lower_types(ty[3])
            IN  IF f = Panic \/ AnyPanic(as) THEN Panic ELSE <<"TApp", f, as>>
      [] ty[1] = "Function" -> curry(ty[2], lower_type_to_why(ty[3]))
      [] ty[1] = "Var" ->
            LET c == char_from_a(ty[2])
            IN  IF c = None THEN Panic ELSE <<"TVar", c[2]>>
      [] ty[1] = "Unknown" -> Panic

RECURSIVE lower_pattern_to_why(_), lower_patterns(_)

lower_patterns(ps) ==
    IF ps = <<>> THEN <<>>
    ELSE <<lower_pattern_to_why(Head(ps))>> \o lower_patterns(Tail(ps))

\* Pattern::Boolean(b)
LowerBoolPat(b) == IF b THEN mk_true ELSE mk_false

lower_pattern_to_why(p) ==
    CASE p[1] = "Var" -> <<"VarP", p[2]>>
      [] p[1] = "TupleStruct" ->
            LET name == lower_value_path(p[2])
                fields == lower_patterns(p[3])
            IN  IF name = Panic \/ AnyPanic(fields) THEN Panic
                ELSE <<"ConsP", name, fields>>
      [] p[1] = "Boolean" -> LowerBoolPat(p[2])
      [] p[1] = "Wild" -> <<"Wildcard">>
      [] OTHER -> Panic   \* _ => unimplemented!()

(* (mutant) every dereference of a reference becomes Current *)
LowerUnary_AllCurrent(op, expr) ==
    IF expr = Panic THEN Panic
    ELSE CASE op[1] = "Final" -> <<"Final", expr>>
           [] op[1] = "Deref" ->
                IF op[2] = None THEN Panic
                ELSE IF op[2][2][1] = "Ref" THEN <<"Current", expr>>
                ELSE expr
           [] op[1] = "Neg" -> <<"UnaryOp", "Neg", expr>>
           [] op[1] = "Not" -> <<"UnaryOp", "Not", expr>>

\* the Unary arm, its operand lowered already
LowerUnary(op, expr) ==
    IF expr = Panic THEN Panic
    ELSE CASE op[1] = "Final" -> <<"Final", expr>>
           [] op[1] = "Deref" ->
                IF op[2] = <<"Some", <<"Ref", "Mut">> >> THEN <<"Current", expr>>
                ELSE IF op[2] # None THEN expr
                ELSE Panic   \* unreachable!()
           [] op[1] = "Neg" -> <<"UnaryOp", "Neg", expr>>
           [] op[1] = "Not" -> <<"UnaryOp", "Not", expr>>

(* (mutant) implication takes the generic operator path *)
LowerBinary_Generic(op, left, right) ==
    LET o == op_to_op(op)
    IN  IF o = Panic \/ left = Panic \/ right = Panic THEN Panic
        ELSE <<"BinaryOp", o, left, right>>

\* the two Binary arms, the operands lowered already (the operator of the
\* node is creusot's mlcfg::FullBinOp: And, Or or Other(mir::BinOp))
LowerBinary(op, left, right) ==
    IF op = "Impl"
    THEN IF left = Panic \/ right = Panic THEN Panic ELSE <<"Impl", left, right>>
    ELSE LET o == op_to_op(op)
         IN  IF o = Panic \/ left = Panic \/ right = Panic THEN Panic
             ELSE <<"BinaryOp", o, left, right>>

\* the Call arm, the arguments lowered already
LowerCall(func, args) ==
    LET is_c == is_constructor(func)
        name == lower_value_path(func)
    IN  IF name = Panic \/ AnyPanic(args) THEN Panic
        ELSE IF is_c THEN <<"Constructor", name, args>>
        ELSE <<"Call", <<"QVar", name>>, args>>

(* (mutant) the arms are built in the other order *)
LowerIf_ElseFirst(cond, then_branch, else_branch) ==
    IF cond = Panic \/ then_branch = Panic \/ else_branch = Panic THEN Panic
    ELSE <<"Match", cond, << <<mk_false, else_branch>>, <<mk_true, then_branch>> >> >>

\* the If arm, the three subterms lowered already
LowerIf(cond, then_branch, else_branch) ==
    IF cond = Panic \/ then_branch = Panic \/ else_branch = Panic THEN Panic
    ELSE <<"Match", cond, << <<mk_true, then_branch>>, <<mk_false, else_branch>> >> >>

RECURSIVE lower_term_to_why(_), lower_terms(_), lower_arms(_), lower_binders(_)

lower_terms(ts) ==
    IF ts = <<>> THEN <<>>
    ELSE <<lower_term_to_why(Head(ts))>> \o lower_terms(Tail(ts))

\* lower_arm_to_why on every arm; a failed arm is Panic
lower_arms(arms) ==
    IF arms = <<>> THEN <<>>
    ELSE LET pat == lower_pattern_to_why(Head(arms)[1])
             body == lower_term_to_why(Head(arms)[2])
         IN  <<IF pat = Panic \/ body = Panic THEN Panic ELSE <<pat, body>> >>
             \o lower_arms(Tail(arms))

\* (i.0.into(), lower_type_to_why(ctx, t)) on every binder
lower_binders(args) ==
    IF args = <<>> THEN <<>>
    ELSE LET ty == lower_type_to_why(Head(args)[2])
         IN  <<IF ty = Panic THEN Panic ELSE <<Head(args)[1], ty>> >>
             \o lower_binders(Tail(args))

LowerQuant(kind, args, body) ==
    IF AnyPanic(args) \/ body = Panic THEN Panic ELSE <<kind, args, body>>

lower_term_to_why(t) ==
    CASE t[1] = "Match" ->
            LET scrut == lower_term_to_why(t[2])
                arms == lower_arms(t[3])
            IN  IF scrut = Panic \/ AnyPanic(arms) THEN Panic
                ELSE <<"Match", scrut, arms>>
      [] t[1] = "Binary" ->
            LowerBinary(t[3], lower_term_to_why(t[2]), lower_term_to_why(t[4]))
      [] t[1] = "Unary" -> LowerUnary(t[2], lower_term_to_why(t[3]))
      [] t[1] = "Variable" ->
            IF t[2][1] = "Path" THEN <<"QVar", lower_value_path(t[2])>>
            ELSE <<"Var", t[2][2]>>
      [] t[1] = "Call" -> LowerCall(t[2], lower_terms(t[3]))
      [] t[1] = "Lit" ->
            LET c == lit_to_const(t[2])
            IN  IF c = Panic THEN Panic ELSE <<"Const", c>>
      [] t[1] = "Forall" ->
            LowerQuant("Forall", lower_binders(t[2]), lower_term_to_why(t[3]))
      [] t[1] = "Exists" ->
            LowerQuant("Exists", lower_binders(t[2]), lower_term_to_why(t[3]))
      [] t[1] = "Let" ->
            LET pat == lower_pattern_to_why(t[2])
                arg == lower_term_to_why(t[3])
                body == lower_term_to_why(t[4])
            IN  IF pat = Panic \/ arg = Panic \/ body = Panic THEN Panic
                ELSE <<"Let", pat, arg, body>>
      [] t[1] = "Absurd" -> <<"Absurd">>
      [] t[1] = "Cast" -> lower_term_to_why(t[2])
      [] t[1] = "Tuple" ->
            LET es == lower_terms(t[2])
            IN  IF AnyPanic(es) THEN Panic ELSE <<"Tuple", es>>
      [] t[1] = "If" ->
            LowerIf(lower_term_to_why(t[2]), lower_term_to_why(t[3]),
                    lower_term_to_why(t[4]))

----------------------------------------------------------------------------
(* The specification trees handed to the lowering.                          *)

Names == {<<"Path", id>> : id \in DefIds} \cup {<<"Ident", v>> : v \in Idents}
Path1 == <<"Path", 1>>

LitSizeNames == {"Eight", "Sixteen", "ThirtyTwo", "SixtyFour", "Mach", "Unknown"}
LitTys ==
    {<<"Signed", z>> : z \in LitSizeNames}
    \cup {<<"Unsigned", z>> : z \in LitSizeNames}
    \cup {<<"Integer">>, <<"Float">>, <<"Double">>, <<"Boolean">>}

TyLeaves ==
    {<<"Path", n>> : n \in {Path1, <<"Ident", "x">>}}
    \cup {<<"Lit", l>> : l \in LitTys}
    \cup {<<"Var", i>> : i \in 0..MaxTyVar}
    \cup {<<"Unknown">>}

TyAtoms == {<<"Path", Path1>>, <<"Lit", <<"Unsigned", "ThirtyTwo">> >>, <<"Var", 0>>}

Wrap(T) ==
    {<<"Box", t>> : t \in T}
    \cup {<<"Reference", k, t>> : k \in {"Mut", "Shr"}, t \in T}

TyRefs1 == TyAtoms \cup Wrap(TyAtoms)
TyRefs2 == TyRefs1 \cup Wrap(TyRefs1)
TyRefs3 == TyRefs2 \cup Wrap(TyRefs2)

Types ==
    TyLeaves
    \cup Wrap(TyLeaves)
    \cup TyRefs3
    \cup {<<"Tuple", ts>> : ts \in SeqsUpTo(TyRefs1, MaxArgs)}
    \cup {<<"Reference", "Mut", <<"Tuple", ts>> >> : ts \in SeqsUpTo(TyRefs1, MaxArgs)}
    \cup {<<"App", <<"Path", Path1>>, ts>> : ts \in SeqsUpTo(TyRefs1, MaxArgs)}
    \cup {<<"Function", ts, r>> : ts \in SeqsUpTo(TyAtoms, MaxArgs), r \in TyRefs1}
    \cup {<<"Reference", "Mut", <<"Function", <<t>>, r>> >> : t \in TyRefs1, r \in TyRefs1}

TermPatLeaves ==
    {<<"Var", v>> : v \in Idents}
    \cup {<<"Boolean", b>> : b \in BOOLEAN}
    \cup {<<"Wild">>, <<"Struct", Path1>>}

TermPats ==
    TermPatLeaves
    \cup {<<"TupleStruct", n, fs>> : n \in Names, fs \in SeqsUpTo(TermPatLeaves, MaxArgs)}

ArmPats == TermPatLeaves \cup {<<"TupleStruct", Path1, <<<<"Var", "x">> >> >>}

Lits ==
    {<<k, n>> : k \in {"U8", "U16", "U32", "U64", "Usize", "Int"}, n \in {0, 1}}
    \cup {<<"F32">>, <<"F64">>}
    \cup {<<"Bool", b>> : b \in BOOLEAN}

TermUnOps ==
    {<<"Final">>, <<"Neg">>, <<"Not">>}
    \cup {<<"Deref", k>> : k \in {<<"Some", <<"Ref", "Mut">> >>, <<"Some", <<"Ref", "Shr">> >>,
                                   <<"Some", <<"Box">> >>, None}}

TermBinOps == {"Add", "Sub", "Mul", "Div", "Eq", "Ne", "Le", "Ge", "Gt", "Lt", "Rem",
               "And", "Or", "Impl"}

TermLeaves ==
    {<<"Variable", n>> : n \in Names}
    \cup {<<"Lit", l>> : l \in Lits}
    \cup {<<"Absurd">>}

TermOperands ==
    {<<"Variable", <<"Ident", "x">> >>, <<"Variable", Path1>>,
     <<"Lit", <<"Int", 0>> >>, <<"Lit", <<"F32">> >>}

QuantArgs ==
    NonEmptySeqsUpTo({<<v, t>> : v \in Idents,
                       t \in {<<"Lit", <<"Unsigned", "ThirtyTwo">> >>,
                              <<"Lit", <<"Signed", "Unknown">> >>}}, 2)

TermArms ==
    {<< <<p, b>> >> : p \in ArmPats, b \in TermOperands}
    \cup {<< <<p, b>>, <<q, c>> >> : p \in {<<"Boolean", TRUE>>, <<"Var", "x">>},
                                     q \in {<<"Boolean", FALSE>>, <<"Wild">>},
                                     b \in TermOperands, c \in TermOperands}

Terms1 ==
    TermLeaves
    \cup {<<"Unary", o, a>> : o \in TermUnOps, a \in TermLeaves}
    \cup {<<"Binary", a, o, b>> : a \in TermOperands, o \in TermBinOps, b \in TermOperands}
    \cup {<<"Call", f, as>> : f \in Names, as \in SeqsUpTo(TermOperands, MaxArgs)}
    \cup {<<"Tuple", as>> : as \in SeqsUpTo(TermOperands, MaxArgs)}
    \cup {<<"If", c, a, b>> : c \in TermOperands, a \in TermOperands, b \in TermOperands}
    \cup {<<"Cast", a, ty>> : a \in TermOperands, ty \in {<<"Lit", <<"Integer">> >>, <<"Unknown">>}}
    \cup {<<"Forall", qs, a>> : qs \in QuantArgs, a \in TermOperands}
    \cup {<<"Exists", qs, a>> : qs \in QuantArgs, a \in TermOperands}
    \cup {<<"Let", p, a, b>> : p \in ArmPats, a \in TermOperands, b \in TermOperands}
    \cup {<<"Match", a, arms>> : a \in TermOperands, arms \in TermArms}

\* the smaller compound terms, for the nested ones
TermInner ==
    {<<"Unary", o, a>> : o \in TermUnOps, a \in TermOperands}
    \cup {<<"Binary", a, o, a>> : a \in TermOperands, o \in {"Impl", "And", "Rem"}}
    \cup {<<"Call", f, <<a>> >> : f \in Names, a \in TermOperands}
    \cup {<<"If", a, a, b>> : a \in TermOperands, b \in TermOperands}
    \cup {<<"Tuple", <<a>> >> : a \in TermOperands}

Terms2 ==
    {<<"Unary", o, a>> : o \in TermUnOps, a \in TermInner}
    \cup {<<"Binary", a, o, b>> : a \in TermInner, o \in {"Impl", "Or", "Add"},
                                  b \in {<<"Absurd">>}}
    \cup {<<"Call", f, <<a>> >> : f \in Names, a \in TermInner}
    \cup {<<"If", a, b, c>> : a \in TermInner, b \in TermInner, c \in {<<"Absurd">>}}
    \cup {<<"Cast", a, <<"Unknown">> >> : a \in TermInner}

Terms == Terms1 \cup Terms2

----------------------------------------------------------------------------
(* The lowering as a state machine: one tree is handed in and the lowering  *)
(* returns its IR tree or fails.                                            *)

InitLower ==
    /\ input \in {<<"term", t>> : t \in Terms}
                 \cup {<<"type", ty>> : ty \in Types}
                 \cup {<<"pattern", p>> : p \in TermPats}
    /\ out = None
    /\ exp = <<"Absurd">>
    /\ prev = <<"Absurd">>
    /\ sub = EmptySubst
    /\ fv = None
    /\ prec = "None"
    /\ last = "new"

Returned(r) == IF r = Panic THEN "panic" ELSE "lowered"

LowerTerm ==
    /\ last = "new"
    /\ input[1] = "term"
    /\ out' = lower_term_to_why(input[2])
    /\ last' = Returned(lower_term_to_why(input[2]))
    /\ UNCHANGED <<exp, prev, sub, fv, input, prec>>

LowerType ==
    /\ last = "new"
    /\ input[1] = "type"
    /\ out' = lower_type_to_why(input[2])
    /\ last' = Returned(lower_type_to_why(input[2]))
    /\ UNCHANGED <<exp, prev, sub, fv, input, prec>>

LowerPattern ==
    /\ last = "new"
    /\ input[1] = "pattern"
    /\ out' = lower_pattern_to_why(input[2])
    /\ last' = Returned(lower_pattern_to_why(input[2]))
    /\ UNCHANGED <<exp, prev, sub, fv, input, prec>>

NextLower == LowerTerm \/ LowerType \/ LowerPattern

SpecLower == InitLower /\ [][NextLower]_vars

----------------------------------------------------------------------------
(* Reference notions the properties are stated with: the variables a        *)
(* pattern binds, the identifiers with a free occurrence in an expression,  *)
(* and the identifiers with any Var occurrence at all.                      *)

RECURSIVE PatternVars(_), PatternVarsAll(_)
PatternVarsAll(ps) ==
    IF ps = <<>> THEN {} ELSE PatternVars(Head(ps)) \cup PatternVarsAll(Tail(ps))
PatternVars(p) ==
    CASE p[1] = "VarP" -> {p[2]}
      [] p[1] = "TupleP" -> PatternVarsAll(p[2])
      [] p[1] = "ConsP" -> PatternVarsAll(p[3])
      [] OTHER -> {}

BoundNames(bnds) == {bnds[i][1] : i \in 1..Len(bnds)}

RECURSIVE FreeVars(_)
FreeVars(e) ==
    CASE e[1] = "Var" -> {e[2]}
      [] e[1] \in {"Current", "Final", "BorrowMut", "RecField"} -> FreeVars(e[2])
      [] e[1] = "UnaryOp" -> FreeVars(e[3])
      [] e[1] = "RecUp" -> FreeVars(e[2]) \cup FreeVars(e[4])
      [] e[1] = "BinaryOp" -> FreeVars(e[3]) \cup FreeVars(e[4])
      [] e[1] = "Impl" -> FreeVars(e[2]) \cup FreeVars(e[3])
      [] e[1] = "Tuple" -> UNION {FreeVars(e[2][i]) : i \in 1..Len(e[2])}
      [] e[1] = "Constructor" -> UNION {FreeVars(e[3][i]) : i \in 1..Len(e[3])}
      [] e[1] = "Call" ->
            FreeVars(e[2]) \cup UNION {FreeVars(e[3][i]) : i \in 1..Len(e[3])}
      [] e[1] = "Let" -> FreeVars(e[3]) \cup (FreeVars(e[4]) \ PatternVars(e[2]))
      [] e[1] = "Abs" -> FreeVars(e[3]) \ {e[2]}
      [] e[1] \in {"Forall", "Exists"} -> FreeVars(e[3]) \ BoundNames(e[2])
      [] e[1] = "Match" ->
            FreeVars(e[2])
            \cup UNION {FreeVars(e[3][i][2]) \ PatternVars(e[3][i][1]) :
                          i \in 1..Len(e[3])}
      [] OTHER -> {}

RECURSIVE VarsOf(_)
VarsOf(e) ==
    CASE e[1] = "Var" -> {e[2]}
      [] e[1] \in {"Current", "Final", "BorrowMut", "RecField"} -> VarsOf(e[2])
      [] e[1] \in {"UnaryOp", "Abs", "Forall", "Exists"} -> VarsOf(e[3])
      [] e[1] = "RecUp" -> VarsOf(e[2]) \cup VarsOf(e[4])
      [] e[1] = "BinaryOp" -> VarsOf(e[3]) \cup VarsOf(e[4])
      [] e[1] = "Impl" -> VarsOf(e[2]) \cup VarsOf(e[3])
      [] e[1] = "Tuple" -> UNION {VarsOf(e[2][i]) : i \in 1..Len(e[2])}
      [] e[1] = "Constructor" -> UNION {VarsOf(e[3][i]) : i \in 1..Len(e[3])}
      [] e[1] = "Call" ->
            VarsOf(e[2]) \cup UNION {VarsOf(e[3][i]) : i \in 1..Len(e[3])}
      [] e[1] = "Let" -> VarsOf(e[3]) \cup VarsOf(e[4])
      [] e[1] = "Match" ->
            VarsOf(e[2]) \cup UNION {VarsOf(e[3][i][2]) : i \in 1..Len(e[3])}
      [] OTHER -> {}

\* subst replaced at least one occurrence of k in e: it inserted s(k)
Mark == <<"Verbatim", "mark">>
Inserts(k, e) == subst(e, k :> Mark) # e

----------------------------------------------------------------------------
(* C1. Exp::subst is capture-avoiding: every free variable of every         *)
(* replacement that subst inserted is still free in the result.             *)
C1_CaptureAvoiding ==
    last = "subst" =>
        \A k \in DOMAIN sub :
            Inserts(k, prev) => FreeVars(sub[k]) \subseteq FreeVars(exp)

(* C2. The non-binding forms hand the caller's mapping to every immediate   *)
(* subexpression, the callee of a Call included: once subst has run with a  *)
(* mapping whose replacements mention none of its keys, no key has a free   *)
(* occurrence left in the expression.                                       *)
C2_NoFreeKeyLeft ==
    (last = "subst" /\ \A j \in DOMAIN sub : VarsOf(sub[j]) \cap DOMAIN sub = {}) =>
        FreeVars(exp) \cap DOMAIN sub = {}

(* C3. Exp::fvs is defined on every expression form and returns exactly     *)
(* the identifiers with a free occurrence.                                  *)
C3_FvsExact ==
    last \in {"fvs", "panic"} => fv = Ok(FreeVars(exp))

(* C4. fvs(Forall(bs, body)) is a set that holds none of the identifiers of *)
(* bs and equals the free variables of body minus those identifiers,        *)
(* whatever forms body is built from.                                       *)
C4_ForallScoping ==
    (last \in {"fvs", "panic"} /\ exp[1] = "Forall") =>
        /\ fv # Panic
        /\ fv[2] \cap BoundNames(exp[2]) = {}
        /\ fv[2] = FreeVars(exp[3]) \ BoundNames(exp[2])

----------------------------------------------------------------------------
(* Reference notions for the lowering: how deep MutableBorrow wrappers      *)
(* nest in an IR type, how deep mutable references nest in a specification  *)
(* type, and which trees hold one of the constructs the lowering is         *)
(* documented to fail on.                                                   *)

Max(S) == IF S = {} THEN 0 ELSE CHOOSE m \in S : \A n \in S : n <= m

RECURSIVE MutDepth(_)
MutDepth(t) ==
    CASE t[1] = "MutableBorrow" -> 1 + MutDepth(t[2])
      [] t[1] = "Tuple" -> Max({MutDepth(t[2][i]) : i \in 1..Len(t[2])})
      [] t[1] = "TApp" ->
            Max({MutDepth(t[2])} \cup {MutDepth(t[3][i]) : i \in 1..Len(t[3])})
      [] t[1] = "TFun" -> Max({MutDepth(t[2]), MutDepth(t[3])})
      [] OTHER -> 0

RECURSIVE MutRefDepth(_)
MutRefDepth(ty) ==
    CASE ty[1] = "Reference" ->
            (IF ty[2] = "Mut" THEN 1 ELSE 0) + MutRefDepth(ty[3])
      [] ty[1] = "Box" -> MutRefDepth(ty[2])
      [] ty[1] = "Tuple" -> Max({MutRefDepth(ty[2][i]) : i \in 1..Len(ty[2])})
      [] ty[1] = "App" ->
            Max({MutRefDepth(ty[2])} \cup {MutRefDepth(ty[3][i]) : i \in 1..Len(ty[3])})
      [] ty[1] = "Function" ->
            Max({MutRefDepth(ty[3])} \cup {MutRefDepth(ty[2][i]) : i \in 1..Len(ty[2])})
      [] OTHER -> 0

RECURSIVE TypeFails(_)
TypeFails(ty) ==
    CASE ty[1] = "Path" -> ty[2][1] = "Ident"
      [] ty[1] = "Box" -> TypeFails(ty[2])
      [] ty[1] = "Reference" -> TypeFails(ty[3])
      [] ty[1] = "Tuple" -> \E i \in 1..Len(ty[2]) : TypeFails(ty[2][i])
      [] ty[1] = "Lit" -> ty[2][1] \in {"Signed", "Unsigned"} /\ ty[2][2] = "Unknown"
      [] ty[1] = "App" -> TypeFails(ty[2]) \/ \E i \in 1..Len(ty[3]) : TypeFails(ty[3][i])
      [] ty[1] = "Function" ->
            TypeFails(ty[3]) \/ \E i \in 1..Len(ty[2]) : TypeFails(ty[2][i])
      [] ty[1] = "Var" -> FALSE
      [] ty[1] = "Unknown" -> TRUE

RECURSIVE PatternFails(_)
PatternFails(p) ==
    CASE p[1] \in {"Var", "Boolean", "Wild"} -> FALSE
      [] p[1] = "TupleStruct" ->
            p[2][1] = "Ident" \/ \E i \in 1..Len(p[3]) : PatternFails(p[3][i])
      [] OTHER -> TRUE

RECURSIVE TermFails(_)
TermFails(t) ==
    CASE t[1] = "Match" ->
            TermFails(t[2])
            \/ \E i \in 1..Len(t[3]) : PatternFails(t[3][i][1]) \/ TermFails(t[3][i][2])
      [] t[1] = "Binary" -> TermFails(t[2]) \/ TermFails(t[4])
      [] t[1] = "Unary" -> t[2] = <<"Deref", None>> \/ TermFails(t[3])
      [] t[1] = "Variable" -> FALSE
      [] t[1] = "Call" ->
            t[2][1] = "Ident" \/ \E i \in 1..Len(t[3]) : TermFails(t[3][i])
      [] t[1] = "Lit" -> t[2][1] \in {"F32", "F64"}
      [] t[1] \in {"Forall", "Exists"} ->
            TermFails(t[3]) \/ \E i \in 1..Len(t[2]) : TypeFails(t[2][i][2])
      [] t[1] = "Let" -> PatternFails(t[2]) \/ TermFails(t[3]) \/ TermFails(t[4])
      [] t[1] = "Absurd" -> FALSE
      [] t[1] = "Cast" -> TermFails(t[2]) \/ TypeFails(t[3])
      [] t[1] = "Tuple" -> \E i \in 1..Len(t[2]) : TermFails(t[2][i])
      [] t[1] = "If" -> TermFails(t[2]) \/ TermFails(t[3]) \/ TermFails(t[4])

InputFails ==
    CASE input[1] = "term" -> TermFails(input[2])
      [] input[1] = "type" -> TypeFails(input[2])
      [] input[1] = "pattern" -> PatternFails(input[2])

Done == last \in {"lowered", "panic"}
IsTerm(tag) == input[1] = "term" /\ input[2][1] = tag

(* C6 as claimed. The type lower_type_to_why returns never holds a          *)
(* MutableBorrow inside another MutableBorrow.                              *)
C6_NoNestedBorrow ==
    (last = "lowered" /\ input[1] = "type") => MutDepth(out) <= 1

(* C6 as amended. MutableBorrow wrappers nest in the returned type exactly  *)
(* as deep as mutable references nest in the type handed in: every mutable  *)
(* reference is kept, boxes and other references add no wrapper.            *)
C6_BorrowDepthKept ==
    (last = "lowered" /\ input[1] = "type") => MutDepth(out) = MutRefDepth(input[2])

\* a mutable reference under a mutable reference has been lowered
C6_Witness ==
    /\ last = "lowered" /\ input[1] = "type"
    /\ input[2][1] = "Reference" /\ input[2][2] = "Mut"
    /\ MutRefDepth(input[2]) >= 2
    /\ MutDepth(out) >= 2

C8_DerefRule ==
    (Done /\ IsTerm("Unary") /\ input[2][2][1] = "Deref") =>
        LET kind == input[2][2][2]
            x == lower_term_to_why(input[2][3])
        IN  /\ (kind = <<"Some", <<"Ref", "Mut">> >> /\ x # Panic) => out = <<"Current", x>>
            /\ (kind # <<"Some", <<"Ref", "Mut">> >> /\ kind # None) => out = x
            /\ kind = None => out = Panic

\* a dereference of a shared reference has been elided
C8_Witness ==
    /\ last = "lowered"
    /\ IsTerm("Unary") /\ input[2][2] = <<"Deref", <<"Some", <<"Ref", "Shr">> >> >>
    /\ input[2][3][1] = "Call"
    /\ out[1] \in {"Call", "Constructor"}

(* C9. Constructor vs. call: a call of a qualified path lowers to           *)
(* Constructor { resolve(func), args } exactly when the definition is a     *)
(* constructor function, an enum variant or a struct, and to                *)
(* Call(QVar(resolve(func)), args) otherwise, the arguments lowered one by  *)
(* one in their order.                                                      *)
C9_ConstructorOrCall ==
    (last = "lowered" /\ IsTerm("Call") /\ input[2][2][1] = "Path") =>
        LET id == input[2][2][2]
            args == input[2][3]
            q == translate_value_id(id)
            lowered == out[3]
        IN  /\ out[1] \in {"Constructor", "Call"}
            /\ (out[1] = "Constructor") <=> (def_kind(id) \in {"Ctor", "Variant", "Struct"})
            /\ out[1] = "Constructor" => out[2] = q
            /\ out[1] = "Call" => out[2] = <<"QVar", q>>
            /\ Len(lowered) = Len(args)
            /\ \A i \in 1..Len(args) : lowered[i] = lower_term_to_why(args[i])

\* a struct applied to two arguments has become a constructor application
C9_Witness ==
    /\ last = "lowered"
    /\ IsTerm("Call") /\ input[2][2][1] = "Path"
    /\ def_kind(input[2][2][2]) = "Struct"
    /\ Len(input[2][3]) = 2 /\ input[2][3][1] # input[2][3][2]
    /\ out[1] = "Constructor" /\ Len(out[3]) = 2

(* C10. If-desugaring: If { C, T, E } lowers to a Match on lower(C) with    *)
(* exactly two arms, (ConsP(True, []), lower(T)) then                       *)
(* (ConsP(False, []), lower(E)); a boolean literal pattern lowers to the    *)
(* same two nullary constructor patterns, in a match arm too.               *)
TrueP == <<"ConsP", << <<>>, <<"True">> >>, <<>> >>
FalseP == <<"ConsP", << <<>>, <<"False">> >>, <<>> >>

C10_IfDesugaring ==
    /\ (last = "lowered" /\ IsTerm("If")) =>
        /\ out[1] = "Match"
        /\ out[2] = lower_term_to_why(input[2][2])
        /\ Len(out[3]) = 2
        /\ out[3][1] = <<TrueP, lower_term_to_why(input[2][3])>>
        /\ out[3][2] = <<FalseP, lower_term_to_why(input[2][4])>>
    /\ (Done /\ input[1] = "pattern" /\ input[2][1] = "Boolean") =>
        out = IF input[2][2] THEN TrueP ELSE FalseP
    /\ (last = "lowered" /\ IsTerm("Match")) =>
        \A i \in 1..Len(input[2][3]) :
            input[2][3][i][1][1] = "Boolean" =>
                out[3][i][1] = IF input[2][3][i][1][2] THEN TrueP ELSE FalseP

\* an If with distinct branches has been lowered to a two-arm Match
C10_Witness ==
    /\ last = "lowered" /\ IsTerm("If")
    /\ input[2][3] # input[2][4]
    /\ out[1] = "Match" /\ Len(out[3]) = 2
    /\ out[3][1][2] # out[3][2][2]

(* C11. Type currying: a function type with arguments [A1, ..., An] and     *)
(* result R lowers to TFun(lower(A1), TFun(lower(A2), ... TFun(lower(An),   *)
(* lower(R)))): n TFun nodes, the arguments in their order from the         *)
(* outside in; with no argument it lowers to lower(R) alone.                *)
RECURSIVE RightNested(_, _)
RightNested(as, r) ==
    IF as = <<>> THEN r
    ELSE <<"TFun", lower_type_to_why(Head(as)), RightNested(Tail(as), r)>>

\* what is left of an IR type under its n outermost TFun nodes
RECURSIVE UnderFuns(_, _)
UnderFuns(t, n) ==
    IF n = 0 THEN t
    ELSE IF t[1] = "TFun" THEN UnderFuns(t[3], n - 1) ELSE Panic

C11_TypeCurrying ==
    (last = "lowered" /\ input[1] = "type" /\ input[2][1] = "Function") =>
        LET as == input[2][2]
            r == lower_type_to_why(input[2][3])
        IN  /\ out = RightNested(as, r)
            /\ UnderFuns(out, Len(as)) = r
            /\ \A i \in 1..Len(as) :
                 UnderFuns(out, i - 1)[2] = lower_type_to_why(as[i])
            /\ as = <<>> => out = r

\* a function type of two different arguments has been curried
C11_Witness ==
    /\ last = "lowered" /\ input[1] = "type" /\ input[2][1] = "Function"
    /\ Len(input[2][2]) = 2 /\ input[2][2][1] # input[2][2][2]
    /\ out[1] = "TFun" /\ out[3][1] = "TFun"
    /\ out[2] # out[3][2]

----------------------------------------------------------------------------
(* Precedence classes. The classes the statement names, by the expressions  *)
(* that carry them.                                                         *)

ClosedAtom == exp[1] \in {"Var", "QVar", "Tuple", "Const", "Absurd"}
LooseForm == exp[1] \in {"Let", "Abs", "Impl"}
OpenClasses == {"Call", "PrefixOp", "Mul", "AddSub", "Compare", "And", "Or"}
Classified == last = "precedence"

\* the class of the closed atoms, of let and abstraction, of implication
ClosedClass == precedence(<<"Var", "x">>)
LetClass == precedence(<<"Abs", "x", <<"Var", "x">> >>)
ImplClass == precedence(<<"Impl", <<"Var", "x">>, <<"Var", "y">> >>)

\* x lies strictly between a and b, whichever of the two is the greater
Between(x, a, b) == (a < x /\ x < b) \/ (b < x /\ x < a)

\* every class in seq is strictly greater than the one after it
Descending(seq) == \A i \in 1..(Len(seq) - 1) : Rank(seq[i]) > Rank(seq[i + 1])

(* C12 as stated: the classes Call, PrefixOp, Mul, AddSub, Compare, And, Or *)
(* lie strictly between the class of the closed atoms at one end of the     *)
(* order and the classes of Let/Abs and of Impl at the other end.           *)
C12_OpenClassesBetweenTheEnds ==
    (Classified /\ prec \in OpenClasses) =>
        /\ Between(Rank(prec), Rank(ClosedClass), Rank(LetClass))
        /\ Between(Rank(prec), Rank(ClosedClass), Rank(ImplClass))

(* C12, amended. precedence gives every expression exactly one class of the *)
(* enumeration. In the derived order the closed atoms have the least class, *)
(* Let/Abs and Impl come next above it (Closed < Let < Impl), and every one *)
(* of Call, PrefixOp, Mul, AddSub, Compare, And, Or is greater than all     *)
(* three, in that sequence from the greatest (tightest, Call, the greatest  *)
(* class of all) down to Or. Impl differs from And and Or; Div has the      *)
(* class Term, which differs from Mul.                                      *)
C12_PrecedenceOrder ==
    Classified =>
        /\ \E i \in 1..Len(Precedence) : Precedence[i] = prec
        /\ \A i, j \in 1..Len(Precedence) : Precedence[i] = Precedence[j] => i = j
        /\ prec = precedence(exp)
        /\ ClosedAtom => /\ prec = ClosedClass
                         /\ \A i \in 1..Len(Precedence) : Rank(prec) <= i
        /\ exp[1] \in {"Let", "Abs"} => prec = LetClass
        /\ exp[1] = "Impl" => prec = ImplClass /\ prec \notin {"And", "Or"}
        /\ Rank(ClosedClass) < Rank(LetClass) /\ Rank(LetClass) < Rank(ImplClass)
        /\ Descending(<<"Call", "PrefixOp", "Mul", "AddSub", "Compare", "And",
                        "Or", ImplClass, LetClass, ClosedClass>>)
        /\ prec \in OpenClasses =>
             /\ ~ClosedAtom /\ ~LooseForm
             /\ Rank(prec) > Rank(ImplClass)
             /\ Rank(prec) <= Rank("Call")
        /\ \A i \in 1..Len(Precedence) : i <= Rank("Call")
        /\ exp[1] = "Call" => prec = "Call"
        /\ exp[1] \in {"Current", "Final"} => prec = "PrefixOp"
        /\ exp[1] = "BinaryOp" =>
             /\ exp[2] = "Mul" => prec = "Mul"
             /\ exp[2] \in {"Add", "Sub"} => prec = "AddSub"
             /\ exp[2] \in {"Eq", "Lt", "Le", "Ne", "Ge", "Gt"} => prec = "Compare"
             /\ exp[2] = "And" => prec = "And"
             /\ exp[2] = "Or" => prec = "Or"
             /\ exp[2] = "Div" => prec = "Term" /\ prec # "Mul"

\* a division has been classified, and so has not been classed with Mul
C12_Witness ==
    /\ Classified
    /\ exp[1] = "BinaryOp" /\ exp[2] = "Div"
    /\ prec = "Term"
    /\ Rank(prec) > Rank("Mul")

====
